---- MODULE Spec2Model ----
(***************************************************************************)
(* A model of the two GitHub contribution reporters of this repository:    *)
(*   src/h1_2025_github_report.py   (github_get, paginate, search_github,  *)
(*                                   fetch_prs, fetch_issues,              *)
(*                                   fetch_commits, aggregate, main)       *)
(*   src/tools/analyze_github.py    (http_get, paginate, search_issues,    *)
(*                                   search_commits, analyze, main)        *)
(*                                                                         *)
(* Text is modelled as a sequence of one-character strings, a timestamp    *)
(* as <<day, hour>>, a time delta in hundredths of its unit (days or       *)
(* hours), and Python's None as the empty tuple.                           *)
(***************************************************************************)
EXTENDS Integers, Sequences, FiniteSets

VARIABLES
    \* ---- the page loops and the HTTP client (SpecFetch) ----
    fn,              \* the page loop that is running, "none" between runs
    pc,              \* its position
    page,            \* its page counter
    total_returned,  \* search_issues / search_commits: items yielded so far
    requests,        \* page requests (client calls) issued by this run
    allFull,         \* every response delivered so far was a full page with a next link
    data,            \* the response the loop's data variable holds (page 0: unbound)
    appended,        \* per extend/yield: the page asked for and the page of the response used
    attempts,        \* urlopen calls made by the current client call
    backoff_sleeps,  \* the rate-limit sleeps of the current client call, in seconds
    clock,           \* the reading of time.time() taken by the current call's backoff
    first,           \* the response to the first attempt of the current client call
    outcome,         \* how the current client call ended
    \* ---- the category pipelines and their aggregates (SpecReport) ----
    pipe,            \* the category loop that is running, "none" between runs
    rpc,             \* its position
    nitems,          \* search items the loop has consumed
    item,            \* the loop variable: the search item being processed
    seen_shas,       \* analyze: the hashes already taken
    records,         \* prs_detailed / issues_detailed / commits_detailed / prs / issues / commits
    assigned,        \* analyze: issues_assigned
    detail_requests, \* the detail requests issued, by item key
    pulls_requests,  \* the commit-to-PR association requests issued, by hash
    totals,          \* the aggregates of the category, None until computed
    \* ---- the per-record functions on their own (SpecRecord) ----
    rin,             \* the item supplied: created_at, merged_at, closed_at, title, labels
    rfn,             \* the code that built the record, "none" before
    rout,            \* the record built from them
    \* ---- a whole run of one of the two programs (SpecMain) ----
    prog,            \* the program that runs, "none" outside a run
    margs,           \* its command line: is a user given, has the output path a directory
    mpc,             \* the position of main
    stage,           \* the search main has reached, 0 before the first
    search_failed,   \* a search request of this run failed and was not recovered
    out_file,        \* the report file: "none", "empty" (opened) or "complete"
    exit_code        \* the exit status, None while the program runs

fetchVars == <<fn, pc, page, total_returned, requests, allFull, data, appended,
               attempts, backoff_sleeps, clock, first, outcome>>

reportVars == <<pipe, rpc, nitems, item, seen_shas, records, assigned,
                detail_requests, pulls_requests, totals>>

recVars == <<rin, rfn, rout>>

mainVars == <<prog, margs, mpc, stage, search_failed, out_file, exit_code>>

vars == <<fetchVars, reportVars, recVars, mainVars>>

None == <<>>

Max(a, b) == IF a >= b THEN a ELSE b
Min(a, b) == IF a <= b THEN a ELSE b

(***************************************************************************)
(* Text: str.lower and the substring test `k in text`.                     *)
(***************************************************************************)
UpperCase == <<"A","B","C","D","E","F","G","H","I","J","K","L","M",
               "N","O","P","Q","R","S","T","U","V","W","X","Y","Z">>
LowerCase == <<"a","b","c","d","e","f","g","h","i","j","k","l","m",
               "n","o","p","q","r","s","t","u","v","w","x","y","z">>

LowerChar(c) ==
    IF \E i \in 1..Len(UpperCase) : UpperCase[i] = c
    THEN LowerCase[CHOOSE i \in 1..Len(UpperCase) : UpperCase[i] = c]
    ELSE c

Lower(s) == [i \in 1..Len(s) |-> LowerChar(s[i])]

\* Python's `k in text` for two strings
Contains(text, k) ==
    \E i \in 0..(Len(text) - Len(k)) :
        \A j \in 1..Len(k) : text[i + j] = k[j]

(***************************************************************************)
(* The remote endpoint.  A response is a status, an error body, the        *)
(* X-RateLimit-Reset header (a digit string, None when absent), the number *)
(* of items of the page and whether a Link header names a next page.       *)
(* Status 0 stands for a transport failure that is no HTTPError.           *)
(***************************************************************************)
PerPage == 100
PageSizes == {0, 37, PerPage}

BodyRateLimit == <<"A","P","I"," ","r","a","t","e"," ","l","i","m","i","t">>
BodySecondary == <<"S","e","c","o","n","d","a","r","y"," ","R","a","t","e"," ","L","i","m","i","t">>
BodyForbidden == <<"F","o","r","b","i","d","d","e","n">>
ErrorBodies == {BodyRateLimit, BodySecondary, BodyForbidden}
RateLimitText == <<"r","a","t","e"," ","l","i","m","i","t">>

\* readings of time.time() and values of the reset header around them
Times == {1000, 1003}
ResetHeaders == {None, <<9,9,0>>, <<1,0,0,5>>, <<1,0,5,8>>, <<1,0,6,1>>, <<9,9,9,9>>}

OkResponses ==
    {[status |-> 200, body |-> None, reset |-> None, size |-> s, next |-> n] :
        s \in PageSizes, n \in BOOLEAN}
HttpErrors ==
    {[status |-> st, body |-> b, reset |-> r, size |-> 0, next |-> FALSE] :
        st \in {403, 429, 500}, b \in ErrorBodies, r \in ResetHeaders}
TransportErrors ==
    {[status |-> 0, body |-> None, reset |-> None, size |-> 0, next |-> FALSE]}
Responses == OkResponses \cup HttpErrors \cup TransportErrors

NoResponse == [status |-> 0, body |-> None, reset |-> None, size |-> 0, next |-> FALSE]
Unbound == [page |-> 0, size |-> 0, next |-> FALSE]

(***************************************************************************)
(* The HTTP clients.                                                       *)
(***************************************************************************)
Loops == {"search_issues", "search_commits", "paginate_tools",
          "search_github", "paginate_h1", "fetch_commits"}

\* the client each loop calls
ClientOf(f) ==
    CASE f \in {"search_issues", "search_commits", "paginate_tools"} -> "http_get"
      [] f \in {"search_github", "paginate_h1"} -> "github_get"
      [] OTHER -> "inline"

IsHTTPError(r) == r.status \notin {0, 200}

\* e.code == 403 and "rate limit" in body.lower()
IsRateLimitMutant(r) == r.status = 403
IsRateLimit(r) == r.status = 403 /\ Contains(Lower(r.body), RateLimitText)

\* int(reset) of a digit string
RECURSIVE ParseInt(_)
ParseInt(s) == IF s = <<>> THEN 0 ELSE 10 * ParseInt(SubSeq(s, 1, Len(s) - 1)) + s[Len(s)]

MaxWait == 60

\* wait_s = max(0, int(reset) - int(time.time()) + 2)
WaitSeconds(reset, now) == Max(0, ParseInt(reset) - now + 2)

\* the argument of time.sleep: min(wait_s, 60)
SleepSecondsMutant(reset, now) == WaitSeconds(reset, now)
SleepSeconds(reset, now) == Min(WaitSeconds(reset, now), MaxWait)

\* Where a client goes after its first attempt got response r.
\*   http_get has no handler: every failure propagates.
\*   github_get retries a rate-limit rejection that carries a reset header and
\*     re-raises everything else.
\*   fetch_commits' inline request does the same, except that a rate-limit
\*     rejection without a reset header is neither retried nor re-raised: control
\*     falls out of the handler to the code after it.
AfterFirstAttempt(client, r) ==
    IF r.status = 200 THEN "ok"
    ELSE IF client = "http_get" \/ ~IsHTTPError(r) THEN "raised"
    ELSE IF IsRateLimit(r)
         THEN IF r.reset # None THEN "backoff"
              ELSE IF client = "inline" THEN "fallthrough" ELSE "raised"
         ELSE "raised"

(***************************************************************************)
(* The page loops.  One client call is FirstAttempt, then Backoff and      *)
(* RetryAttempt when the client retries; the loop body that follows a      *)
(* delivered response is one step per loop.                                *)
(***************************************************************************)
SearchCap == 1000
MaxPages == 10
\* bound of the model: page requests of one run of a loop the code does not cap
MaxRequests == 12

\* no per-record function is being explored
RecIdle ==
    /\ rin = None
    /\ rfn = "none"
    /\ rout = None

\* no program is running
MainIdle ==
    /\ prog = "none"
    /\ margs = None
    /\ mpc = "idle"
    /\ stage = 0
    /\ search_failed = FALSE
    /\ out_file = "none"
    /\ exit_code = None

\* no category pipeline is running
ReportIdle ==
    /\ pipe = "none"
    /\ rpc = "idle"
    /\ nitems = 0
    /\ item = None
    /\ seen_shas = {}
    /\ records = <<>>
    /\ assigned = <<>>
    /\ detail_requests = <<>>
    /\ pulls_requests = <<>>
    /\ totals = None

Start(f) ==
    /\ UNCHANGED <<reportVars, recVars, mainVars>>
    /\ pc = "idle"
    /\ fn' = f
    /\ pc' = "call"
    /\ page' = 1
    /\ total_returned' = 0
    /\ requests' = 0
    /\ allFull' = TRUE
    /\ data' = Unbound
    /\ appended' = <<>>
    /\ attempts' = 0
    /\ backoff_sleeps' = <<>>
    /\ clock' = 0
    /\ first' = NoResponse
    /\ outcome' = "none"

\* where the loop goes when its client call ends in state o
AfterCall(o) ==
    CASE o = "ok" -> "process"
      [] o = "fallthrough" -> "process"
      [] o = "backoff" -> "backoff"
      [] OTHER -> "raised"

\* urlopen(req): the first attempt of a client call for the current page
FirstAttempt(r) ==
    /\ UNCHANGED <<reportVars, recVars, mainVars>>
    /\ pc = "call"
    /\ requests < MaxRequests
    /\ requests' = requests + 1
    /\ attempts' = 1
    /\ backoff_sleeps' = <<>>
    /\ clock' = 0
    /\ first' = r
    /\ LET o == AfterFirstAttempt(ClientOf(fn), r) IN
         /\ outcome' = IF o = "backoff" THEN "none" ELSE o
         /\ pc' = AfterCall(o)
         /\ data' = IF o = "ok" THEN [page |-> page, size |-> r.size, next |-> r.next]
                    ELSE data
    /\ allFull' = (allFull /\ r.status = 200 /\ r.size = PerPage /\ r.next)
    /\ UNCHANGED <<fn, page, total_returned, appended>>

\* the handler's sleep: time.sleep(min(wait_s, 60)), the clock read now
Backoff(now) ==
    /\ UNCHANGED <<reportVars, recVars, mainVars>>
    /\ pc = "backoff"
    /\ clock' = now
    /\ backoff_sleeps' = Append(backoff_sleeps, SleepSeconds(first.reset, now))
    /\ pc' = "retry"
    /\ UNCHANGED <<fn, page, total_returned, requests, allFull, data, appended,
                   attempts, first, outcome>>

\* the second urlopen(req), inside the handler: its failure is not caught
RetryAttempt(r) ==
    /\ UNCHANGED <<reportVars, recVars, mainVars>>
    /\ pc = "retry"
    /\ attempts' = attempts + 1
    /\ outcome' = IF r.status = 200 THEN "ok" ELSE "raised"
    /\ pc' = AfterCall(outcome')
    /\ data' = IF r.status = 200 THEN [page |-> page, size |-> r.size, next |-> r.next]
               ELSE data
    /\ UNCHANGED <<fn, page, total_returned, requests, allFull, appended, clock,
                   backoff_sleeps, first>>

Used == [asked |-> page, used |-> data.page]

\* the client call has returned: its frame is gone when the loop body runs
CallReturned ==
    /\ attempts' = 0
    /\ backoff_sleeps' = <<>>
    /\ clock' = 0
    /\ first' = NoResponse
    /\ outcome' = "none"

\* search_issues and search_commits: stop on an empty or short page or at 1000 items
SearchStops(n, total) == n < PerPage \/ total >= SearchCap

SearchToolsStep ==
    /\ UNCHANGED <<reportVars, recVars, mainVars>>
    /\ pc = "process"
    /\ fn \in {"search_issues", "search_commits"}
    /\ IF data.size = 0
       THEN /\ pc' = "returned"
            /\ UNCHANGED <<page, total_returned, appended>>
       ELSE /\ appended' = Append(appended, Used)
            /\ total_returned' = total_returned + data.size
            /\ IF SearchStops(data.size, total_returned')
               THEN pc' = "returned" /\ UNCHANGED page
               ELSE pc' = "call" /\ page' = page + 1
    /\ CallReturned
    /\ UNCHANGED <<fn, requests, allFull, data>>

\* paginate of analyze_github.py: stop on an empty page or a missing next link
PaginateToolsStep ==
    /\ UNCHANGED <<reportVars, recVars, mainVars>>
    /\ pc = "process"
    /\ fn = "paginate_tools"
    /\ IF data.size = 0
       THEN /\ pc' = "returned"
            /\ UNCHANGED <<page, appended>>
       ELSE /\ appended' = Append(appended, Used)
            /\ IF ~data.next
               THEN pc' = "returned" /\ UNCHANGED page
               ELSE pc' = "call" /\ page' = page + 1
    /\ CallReturned
    /\ UNCHANGED <<fn, total_returned, requests, allFull, data>>

\* search_github and the search loop of fetch_commits:
\* stop on a short page or at page 10
PageStops(n, p) == n < PerPage \/ p >= MaxPages

SearchGithubStep ==
    /\ UNCHANGED <<reportVars, recVars, mainVars>>
    /\ pc = "process"
    /\ fn = "search_github"
    /\ appended' = Append(appended, Used)
    /\ IF PageStops(data.size, page)
       THEN pc' = "returned" /\ UNCHANGED page
       ELSE pc' = "call" /\ page' = page + 1
    /\ CallReturned
    /\ UNCHANGED <<fn, total_returned, requests, allFull, data>>

\* paginate of h1_2025_github_report.py: stop on a short page
PaginateH1Step ==
    /\ UNCHANGED <<reportVars, recVars, mainVars>>
    /\ pc = "process"
    /\ fn = "paginate_h1"
    /\ appended' = Append(appended, Used)
    /\ IF data.size < PerPage
       THEN pc' = "returned" /\ UNCHANGED page
       ELSE pc' = "call" /\ page' = page + 1
    /\ CallReturned
    /\ UNCHANGED <<fn, total_returned, requests, allFull, data>>

\* fetch_commits after its inline request: data.get("items", []) reads whatever
\* data holds; reading it unbound raises UnboundLocalError
FetchCommitsStep ==
    /\ UNCHANGED <<reportVars, recVars, mainVars>>
    /\ pc = "process"
    /\ fn = "fetch_commits"
    /\ IF data = Unbound
       THEN /\ pc' = "raised"
            /\ UNCHANGED <<page, appended>>
       ELSE /\ appended' = Append(appended, Used)
            /\ IF PageStops(data.size, page)
               THEN pc' = "returned" /\ UNCHANGED page
               ELSE pc' = "call" /\ page' = page + 1
    /\ CallReturned
    /\ UNCHANGED <<fn, total_returned, requests, allFull, data>>

\* the locals of a loop that is over
FetchReset ==
    /\ pc' = "idle"
    /\ fn' = "none"
    /\ page' = 0
    /\ total_returned' = 0
    /\ requests' = 0
    /\ allFull' = TRUE
    /\ data' = Unbound
    /\ appended' = <<>>
    /\ attempts' = 0
    /\ backoff_sleeps' = <<>>
    /\ clock' = 0
    /\ first' = NoResponse
    /\ outcome' = "none"

\* the loop has returned or raised: its locals are gone
Finish ==
    /\ UNCHANGED <<reportVars, recVars, mainVars>>
    /\ pc \in {"returned", "raised"}
    /\ FetchReset

FetchIdle ==
    /\ fn = "none"
    /\ pc = "idle"
    /\ page = 0
    /\ total_returned = 0
    /\ requests = 0
    /\ allFull = TRUE
    /\ data = Unbound
    /\ appended = <<>>
    /\ attempts = 0
    /\ backoff_sleeps = <<>>
    /\ clock = 0
    /\ first = NoResponse
    /\ outcome = "none"

FetchInit ==
    /\ FetchIdle
    /\ ReportIdle
    /\ RecIdle
    /\ MainIdle

FetchNext ==
    \/ \E f \in Loops : Start(f)
    \/ \E r \in Responses : FirstAttempt(r)
    \/ \E now \in Times : Backoff(now)
    \/ \E r \in Responses : RetryAttempt(r)
    \/ SearchToolsStep
    \/ PaginateToolsStep
    \/ SearchGithubStep
    \/ PaginateH1Step
    \/ FetchCommitsStep
    \/ Finish

SpecFetch == FetchInit /\ [][FetchNext]_vars

(***************************************************************************)
(* Claims about the page loops and the HTTP clients, under SpecFetch.      *)
(***************************************************************************)
\* a client call has made its first attempt and the loop body has not yet run
InCall == attempts >= 1
\* the client call is over: it returned to the loop or raised
CallOver == InCall /\ pc \in {"process", "raised"}
\* the first attempt was rejected with a rate-limit message in its body
FirstRateLimited ==
    /\ first.status = 403
    /\ first.body \in {BodyRateLimit, BodySecondary}
NumberOf(h) ==
    CASE h = <<9,9,0>> -> 990
      [] h = <<1,0,0,5>> -> 1005
      [] h = <<1,0,5,8>> -> 1058
      [] h = <<1,0,6,1>> -> 1061
      [] h = <<9,9,9,9>> -> 9999

\* C1: against an endpoint that answers every request with a full page and a
\* next link, every page loop stops after at most 10 page requests and 1000
\* items.  (The two paginate functions have no cap and violate it.)
C1_EveryLoopStopsAtCap ==
    allFull => requests <= MaxPages /\ Len(appended) * PerPage <= SearchCap

\* C1, the part the code has: the four search loops never issue an 11th request
C1_SearchLoopsStopAtCap ==
    fn \in {"search_issues", "search_commits", "search_github", "fetch_commits"}
        => requests <= MaxPages /\ Len(appended) * PerPage <= SearchCap

\* C2: a call whose first attempt is rejected for rate limiting sleeps and
\* retries exactly once (2 attempts), and a failed retry ends the call in failure.
\* (http_get never retries; github_get and the inline request do not retry
\* without a reset header, and the inline request then does not fail either.)
C2_RateLimitRetriedOnce ==
    /\ attempts <= 2
    /\ (CallOver /\ FirstRateLimited)
          => /\ attempts = 2
             /\ Len(backoff_sleeps) = 1
             /\ outcome \in {"ok", "raised"}

\* C2, the part every client has: never more than 2 attempts, a second attempt
\* only after one backoff sleep, and a call that made 2 attempts ends "ok" or "raised"
C2_AtMostTwoAttempts ==
    /\ attempts <= 2
    /\ attempts = 2 => Len(backoff_sleeps) = 1 /\ FirstRateLimited
    /\ (CallOver /\ attempts = 2) => outcome \in {"ok", "raised"}

\* C3: the backoff sleep before a retry lasts between 0 and 60 seconds and equals
\* min(max(0, reset - now + 2), 60), whatever the reset time is
C3_BackoffClamped ==
    pc = "retry" =>
        LET w == NumberOf(first.reset) - clock + 2
            d == backoff_sleeps[1]
        IN  /\ Len(backoff_sleeps) = 1
            /\ d >= 0 /\ d <= 60
            /\ (w <= 0 => d = 0)
            /\ (w >= 0 /\ w <= 60 => d = w)
            /\ (w >= 60 => d = 60)

\* C3 witness: a reset time far in the future, slept for exactly the clamp
C3_Witness ==
    /\ pc = "retry"
    /\ first.reset = <<9,9,9,9>>
    /\ backoff_sleeps = <<60>>

\* C4: a first attempt that fails and is not a rate-limit rejection is not
\* retried and not slept on: the call fails after exactly one attempt
C4_OtherFailurePropagates ==
    (/\ InCall
     /\ first.status # 200
     /\ ~(first.status \in {403, 429} /\ first.body \in {BodyRateLimit, BodySecondary}))
        => /\ attempts = 1
           /\ backoff_sleeps = <<>>
           /\ pc = "raised"
           /\ outcome = "raised"

\* C4 witness: a 403 that is no rate-limit rejection, although it carries a
\* reset header, has failed a github_get call
C4_Witness ==
    /\ fn = "search_github"
    /\ pc = "raised"
    /\ attempts = 1
    /\ first.status = 403
    /\ first.body = BodyForbidden
    /\ first.reset # None

\* every page of items taken was the response to the request for that page
OwnPages == \A i \in 1..Len(appended) : appended[i].asked = appended[i].used

\* C15: in the commit search loop of fetch_commits the items appended for
\* page n come from a successful response to the request for page n: a request
\* that fails and is not successfully retried (a rate-limit rejection without
\* a reset header included) propagates, and the loop never goes on with an
\* undefined value or with the previous page's response
C15_FetchCommitsUsesOwnPage ==
    fn = "fetch_commits" =>
        /\ OwnPages
        /\ outcome # "fallthrough"
        /\ (pc = "process" => data # Unbound /\ data.page = page)

\* C15 for the other page loops: they only ever use the response to the page
\* they asked for, and a failed call never reaches the loop body
C15_OtherLoopsUseOwnPage ==
    fn \notin {"none", "fetch_commits"} =>
        /\ OwnPages
        /\ outcome # "fallthrough"
        /\ (pc = "process" => data # Unbound /\ data.page = page)

(***************************************************************************)
(* Timestamps and time deltas.  An ISO timestamp is <<day, hour>>, day 1   *)
(* being 2025-01-01; a datetime is <<hours>>; a delta is an integer number *)
(* of hundredths.  With whole hours every half-way case of round(x, 2) is  *)
(* an exact binary fraction, which Python rounds to the even neighbour.    *)
(***************************************************************************)
Absent == ""

\* round(n / d, 0) for d > 0, half to even
RoundHalfEven(n, d) ==
    LET q == n \div d
        r == n - q * d
    IN  IF 2 * r < d THEN q
        ELSE IF 2 * r > d THEN q + 1
        ELSE IF q % 2 = 0 THEN q ELSE q + 1

iso_to_dt(iso_str) ==
    IF iso_str = None THEN None ELSE <<iso_str[1] * 24 + iso_str[2]>>

\* round(delta.total_seconds() / 86400.0, 2), in hundredths of a day
days_between_swapped(start, end) ==
    IF start = None \/ end = None THEN None
    ELSE <<RoundHalfEven((start[1] - end[1]) * 100, 24)>>
days_between_zero(start, end) ==
    IF start = None \/ end = None THEN <<0>>
    ELSE <<RoundHalfEven((end[1] - start[1]) * 100, 24)>>
days_between(start, end) ==
    IF start = None \/ end = None THEN None
    ELSE <<RoundHalfEven((end[1] - start[1]) * 100, 24)>>

\* round(delta.total_seconds() / 3600, 2), in hundredths of an hour
calc_mttr_hours(created_iso, closed_iso) ==
    IF created_iso = None \/ closed_iso = None THEN None
    ELSE <<((closed_iso[1] * 24 + closed_iso[2]) - (created_iso[1] * 24 + created_iso[2])) * 100>>

H1StartDay == 1
H1EndDay == 181
within_h1_2025(iso_date) ==
    LET h == iso_date[1] * 24 + iso_date[2]
    IN  H1StartDay * 24 <= h /\ h <= H1EndDay * 24 + 23

\* a or b, for two optional values
OrElse(a, b) == IF a # None THEN a ELSE b

(***************************************************************************)
(* Search items and detail responses of the commit and PR categories.  A   *)
(* URL is the sequence of its segments between slashes; a repository name  *)
(* "owner/repo" is <<owner, repo>>.                                        *)
(***************************************************************************)
\* bound of the model: search items one category loop consumes
MaxItems == 3

RepoA == <<"o", "r">>
Shas == {"a1", "b2"}
CommitUrl(s) == <<"https:", "", "github.com", "o", "r", "commit", s>>
ShortUrl == <<"https:", "", "github.com", "o">>
DateIn == <<3, 0>>
DateOut == <<200, 0>>

CommitItems ==
    {[sha |-> s, repo |-> rp, html_url |-> u] :
        s \in Shas \cup {Absent}, rp \in {None, RepoA},
        u \in {None, ShortUrl, CommitUrl("a1")}}

CommitFetchError == [ok |-> FALSE, additions |-> 0, deletions |-> 0, files |-> 0, date |-> None]
CommitDetails ==
    {CommitFetchError} \cup
    {[ok |-> TRUE, additions |-> 10, deletions |-> 2, files |-> 3, date |-> d] :
        d \in {None, DateIn, DateOut}}

\* get_pulls_for_commit: a failure, or a list of n pull requests
PullsOutcomes == {[ok |-> FALSE, n |-> 0], [ok |-> TRUE, n |-> 0], [ok |-> TRUE, n |-> 1]}

\* analyze: html_url.split("/") with at least 7 parts gives parts[3]/parts[4]
RepoFromUrlTools(u) == IF Len(u) >= 7 THEN <<u[4], u[5]>> ELSE None

\* fetch_commits: "/commit/" in html_url, and the two parts of the split
HasCommitPart(u) == \E k \in 2..(Len(u) - 1) : u[k] = "commit"
CommitAt(u) == CHOOSE k \in 2..(Len(u) - 1) :
                  u[k] = "commit" /\ \A j \in 2..(k - 1) : u[j] # "commit"
RepoFromUrlH1(u) ==
    IF Len(u) >= 3 /\ SubSeq(u, 1, 3) = <<"https:", "", "github.com">>
    THEN SubSeq(u, 4, CommitAt(u) - 1)
    ELSE SubSeq(u, 1, CommitAt(u) - 1)
ShaFromUrlH1(u) == u[CommitAt(u) + 1]

RepoUrl == <<"https:", "", "api.github.com", "repos", "o", "r">>
RepoUrlSlash == <<"https:", "", "api.github.com", "repos", "o", "r", "">>
BadUrl == <<"x">>

RECURSIVE RStripSlash(_)
RStripSlash(u) ==
    IF u # <<>> /\ u[Len(u)] = "" THEN RStripSlash(SubSeq(u, 1, Len(u) - 1)) ELSE u

safe_repo_full_name(it) ==
    IF it.repository_url = None THEN None
    ELSE LET parts == RStripSlash(it.repository_url)
         IN  IF Len(parts) < 2 THEN None
             ELSE <<parts[Len(parts) - 1], parts[Len(parts)]>>

T0 == <<32, 0>>
PrItems ==
    {[number |-> n, repository_url |-> u, created_at |-> T0, closed_at |-> c] :
        n \in {0, 7, 8}, u \in {None, RepoUrl, RepoUrlSlash, BadUrl},
        c \in {None, <<35, 5>>}}
H1PrItems == {[number |-> n, pr_url |-> u] : n \in {7, 8}, u \in {Absent, "pulls"}}

PrFetchError ==
    [ok |-> FALSE, created_at |-> None, merged_at |-> None, closed_at |-> None,
     additions |-> 0, deletions |-> 0, changed_files |-> 0]
PrDetails ==
    {PrFetchError,
     [ok |-> TRUE, created_at |-> T0, merged_at |-> <<34, 0>>, closed_at |-> <<34, 0>>,
      additions |-> 10, deletions |-> 2, changed_files |-> 1],
     [ok |-> TRUE, created_at |-> T0, merged_at |-> None, closed_at |-> <<35, 3>>,
      additions |-> 4, deletions |-> 4, changed_files |-> 2],
     [ok |-> TRUE, created_at |-> T0, merged_at |-> None, closed_at |-> None,
      additions |-> 1, deletions |-> 0, changed_files |-> 1]}

(***************************************************************************)
(* The category pipelines.  A run of a pipeline is StartPipe, one step per *)
(* search item (the whole loop body, its detail requests included, the     *)
(* item and the outcome of each request supplied by the endpoint), the end *)
(* of the loop, and the aggregation of the category's totals.              *)
(***************************************************************************)
AllPipes == {"analyze_prs", "analyze_issues", "analyze_commits",
             "h1_prs", "h1_issues", "h1_commits"}

StartPipe(p) ==
    /\ UNCHANGED <<fetchVars, recVars, mainVars>>
    /\ rpc = "idle"
    /\ pipe' = p
    /\ rpc' = "loop"
    /\ nitems' = 0
    /\ item' = None
    /\ seen_shas' = {}
    /\ records' = <<>>
    /\ assigned' = <<>>
    /\ detail_requests' = <<>>
    /\ pulls_requests' = <<>>
    /\ totals' = None

\* the loop moves on to the item `it`
Take(it) ==
    /\ nitems < MaxItems
    /\ nitems' = nitems + 1
    /\ item' = it

(* ------------------------- analyze: pull requests ---------------------- *)
\* the minimal info analyze falls back to when get_pr_details raises
PrFallback(it) ==
    [created_at |-> it.created_at, merged_at |-> None, closed_at |-> it.closed_at,
     additions |-> 0, deletions |-> 0, changed_files |-> 0, _fetch_error |-> "e"]

PrOf(it, d) ==
    IF d.ok
    THEN [created_at |-> d.created_at, merged_at |-> d.merged_at,
          closed_at |-> d.closed_at, additions |-> d.additions,
          deletions |-> d.deletions, changed_files |-> d.changed_files]
    ELSE PrFallback(it)

PrCycleDays(pr) ==
    days_between(iso_to_dt(pr.created_at),
                 OrElse(iso_to_dt(pr.merged_at), iso_to_dt(pr.closed_at)))

\* the dict appended to prs_detailed
PrRecord(repo, number, pr) ==
    [repo |-> repo, number |-> number, created_at |-> pr.created_at,
     merged_at |-> pr.merged_at, closed_at |-> pr.closed_at,
     additions |-> pr.additions, deletions |-> pr.deletions,
     changed_files |-> pr.changed_files, cycle_time_days |-> PrCycleDays(pr)]

AnalyzePrStep ==
    /\ UNCHANGED <<fetchVars, recVars, mainVars>>
    /\ pipe = "analyze_prs"
    /\ rpc = "loop"
    /\ \E it \in PrItems, d \in PrDetails :
         /\ Take(it)
         /\ LET repo == safe_repo_full_name(it) IN
              IF repo = None \/ it.number = 0
              THEN UNCHANGED <<records, detail_requests>>
              ELSE /\ detail_requests' =
                        Append(detail_requests, [key |-> it.number, ok |-> d.ok])
                   /\ records' = Append(records, PrRecord(repo, it.number, PrOf(it, d)))
    /\ UNCHANGED <<pipe, rpc, seen_shas, assigned, pulls_requests, totals>>

(* --------------------------- h1: pull requests ------------------------- *)
H1PrRecord(it, d) ==
    [number |-> it.number, merged |-> d.merged_at # None,
     additions |-> d.additions, deletions |-> d.deletions,
     changed_files |-> d.changed_files, created_at |-> d.created_at,
     merged_at |-> d.merged_at, closed_at |-> d.closed_at]

H1PrStep ==
    /\ UNCHANGED <<fetchVars, recVars, mainVars>>
    /\ pipe = "h1_prs"
    /\ rpc = "loop"
    /\ \E it \in H1PrItems, d \in PrDetails :
         /\ Take(it)
         /\ IF it.pr_url = Absent
            THEN UNCHANGED <<records, detail_requests>>
            ELSE /\ detail_requests' =
                      Append(detail_requests, [key |-> it.number, ok |-> d.ok])
                 /\ records' = IF d.ok THEN Append(records, H1PrRecord(it, d))
                               ELSE records
    /\ UNCHANGED <<pipe, rpc, seen_shas, assigned, pulls_requests, totals>>

(* ----------------------------- analyze: commits ------------------------ *)
\* `if not sha or sha in seen_shas: continue`
CommitTakenNoDedup(it, seen) == it.sha # Absent
CommitTaken(it, seen) == it.sha # Absent /\ it.sha \notin seen

AnalyzeCommitRepo(it) ==
    IF it.repo # None THEN it.repo ELSE RepoFromUrlTools(it.html_url)

\* the dict appended to commits_detailed; d is the detail response (a failed
\* fetch reads as {"_fetch_error": ...}, no request as {}), n the pulls found
CommitRecord(it, repo, d, n) ==
    LET got == repo # None /\ d.ok
        additions == IF got THEN d.additions ELSE 0
        deletions == IF got THEN d.deletions ELSE 0
    IN  [repo |-> repo, sha |-> it.sha, date |-> IF got THEN d.date ELSE None,
         additions |-> additions, deletions |-> deletions,
         total_changes |-> additions + deletions,
         files_changed |-> IF got THEN d.files ELSE 0,
         associated_prs |-> n]

AnalyzeCommitStep ==
    /\ UNCHANGED <<fetchVars, recVars, mainVars>>
    /\ pipe = "analyze_commits"
    /\ rpc = "loop"
    /\ \E it \in CommitItems, d \in CommitDetails, pl \in PullsOutcomes :
         /\ Take(it)
         /\ IF ~CommitTaken(it, seen_shas)
            THEN UNCHANGED <<seen_shas, records, detail_requests, pulls_requests>>
            ELSE LET repo == AnalyzeCommitRepo(it) IN
                 /\ seen_shas' = seen_shas \cup {it.sha}
                 /\ detail_requests' =
                      IF repo # None
                      THEN Append(detail_requests, [key |-> it.sha, ok |-> d.ok])
                      ELSE detail_requests
                 /\ pulls_requests' =
                      IF repo # None THEN Append(pulls_requests, it.sha)
                      ELSE pulls_requests
                 /\ records' = Append(records,
                      CommitRecord(it, repo, d, IF repo # None /\ pl.ok THEN pl.n ELSE 0))
    /\ UNCHANGED <<pipe, rpc, assigned, totals>>

(* -------------------------------- h1: commits -------------------------- *)
\* repo_full and sha of a search item, derived from its URL when one is missing
H1CommitKey(it) ==
    IF (it.repo = None \/ it.sha = Absent) /\ it.html_url # None /\ HasCommitPart(it.html_url)
    THEN [repo |-> RepoFromUrlH1(it.html_url), sha |-> ShaFromUrlH1(it.html_url)]
    ELSE [repo |-> it.repo, sha |-> it.sha]

\* the detail's own sha is the one asked for
H1CommitRecord(key, d) ==
    [repo_full_name |-> key.repo, sha |-> key.sha, date |-> d.date,
     additions |-> d.additions, deletions |-> d.deletions,
     total |-> d.additions + d.deletions]

H1CommitStep ==
    /\ UNCHANGED <<fetchVars, recVars, mainVars>>
    /\ pipe = "h1_commits"
    /\ rpc = "loop"
    /\ \E it \in CommitItems, d \in CommitDetails :
         /\ Take(it)
         /\ LET key == H1CommitKey(it) IN
              IF key.repo = None \/ key.sha = Absent
              THEN UNCHANGED <<records, detail_requests>>
              ELSE /\ detail_requests' =
                        Append(detail_requests, [key |-> key.sha, ok |-> d.ok])
                   /\ records' = IF d.ok THEN Append(records, H1CommitRecord(key, d))
                                 ELSE records
    /\ UNCHANGED <<pipe, rpc, seen_shas, assigned, pulls_requests, totals>>

\* commits = [c for c in commits if c.get("date") and within_h1_2025(c["date"])]
InWindow(c) == c.date # None /\ within_h1_2025(c.date)

(* ------------------------------- aggregation --------------------------- *)
RECURSIVE Sum(_)
\* sum(ns) of a list of numbers
Sum(ns) == IF ns = <<>> THEN 0 ELSE Head(ns) + Sum(Tail(ns))

Count(xs, P(_)) == Len(SelectSeq(xs, P))

\* the end of the loop: the items are exhausted
LoopEnd ==
    /\ UNCHANGED <<fetchVars, recVars, mainVars>>
    /\ rpc = IF pipe = "analyze_issues" THEN "loop2" ELSE "loop"
    /\ rpc' = "fetched"
    /\ records' = IF pipe = "h1_commits" THEN SelectSeq(records, InWindow) ELSE records
    /\ UNCHANGED <<pipe, nitems, item, seen_shas, assigned, detail_requests,
                   pulls_requests, totals>>

\* the report is built and the run is over
Done ==
    /\ UNCHANGED <<fetchVars, recVars, mainVars>>
    /\ rpc = "done"
    /\ pipe' = "none"
    /\ rpc' = "idle"
    /\ nitems' = 0
    /\ item' = None
    /\ seen_shas' = {}
    /\ records' = <<>>
    /\ assigned' = <<>>
    /\ detail_requests' = <<>>
    /\ pulls_requests' = <<>>
    /\ totals' = None

(***************************************************************************)
(* Incident classification.                                                *)
(***************************************************************************)
\* is_incident_issue: incident_markers
incident_markers ==
    <<<<"i","n","c","i","d","e","n","t">>,
      <<"s","e","v">>,
      <<"s","e","v","e","r","i","t","y">>,
      <<"p","0">>,
      <<"p","1">>,
      <<"s","1">>,
      <<"s","2">>,
      <<"o","u","t","a","g","e">>,
      <<"h","o","t","f","i","x">>>>
\* detect_incident_issue: the title keywords and the label names
keywords ==
    <<<<"i","n","c","i","d","e","n","t">>,
      <<"o","u","t","a","g","e">>,
      <<"s","e","v">>,
      <<"p","1">>,
      <<"p","0">>,
      <<"s","e","c","u","r","i","t","y"," ","i","n","c","i","d","e","n","t">>>>
incident_labels ==
    <<<<"i","n","c","i","d","e","n","t">>,
      <<"o","u","t","a","g","e">>,
      <<"s","e","v","1">>,
      <<"s","e","v","2">>,
      <<"p","1">>,
      <<"p","0">>>>

\* analyze_github.py: any marker is a substring of any lower-cased label name
is_incident_issue(labels) ==
    \E n \in 1..Len(labels) : \E m \in 1..Len(incident_markers) :
        Contains(Lower(labels[n]), incident_markers[m])

\* h1 report: a keyword is a substring of the lower-cased title, or a label
\* name, lower-cased, is one of the label names
detect_incident_labels_only(title, labels) ==
    \E k \in 1..Len(incident_labels) :
        incident_labels[k] \in {Lower(labels[n]) : n \in 1..Len(labels)}
detect_incident_issue(title, labels) ==
    \/ \E k \in 1..Len(keywords) : Contains(Lower(title), keywords[k])
    \/ \E k \in 1..Len(incident_labels) :
          incident_labels[k] \in {Lower(labels[n]) : n \in 1..Len(labels)}

(***************************************************************************)
(* The issue category.                                                     *)
(***************************************************************************)
TitleOutage == <<"P","0"," ","o","u","t","a","g","e">>
TitlePlain == <<"f","i","x"," ","t","y","p","o">>
LabelSev1 == <<"S","E","V","1">>
T1 == <<10, 0>>

\* title and labels; created and closed
IssueTexts == {<<TitleOutage, <<>>>>, <<TitlePlain, <<>>>>, <<TitlePlain, <<LabelSev1>>>>}
IssueTimes == {<<T1, None>>, <<T1, <<11, 0>>>>, <<T1, <<13, 0>>>>, <<None, <<11, 0>>>>}
IssueNumbers == {1}
IssueItems ==
    {[repository_url |-> RepoUrl, number |-> n, title |-> tx[1], labels |-> tx[2],
      created_at |-> tm[1], closed_at |-> tm[2]] :
        n \in IssueNumbers, tx \in IssueTexts, tm \in IssueTimes}

\* the dict appended to issues_detailed and to issues_assigned
IssueRecord(it) ==
    [repo |-> safe_repo_full_name(it), number |-> it.number, title |-> it.title,
     created_at |-> it.created_at, closed_at |-> it.closed_at, labels |-> it.labels,
     time_to_close_days |-> days_between(iso_to_dt(it.created_at), iso_to_dt(it.closed_at)),
     is_incident |-> is_incident_issue(it.labels)]

\* the dict fetch_issues appends
H1IssueRecord(it) ==
    [number |-> it.number, title |-> it.title, created_at |-> it.created_at,
     closed_at |-> it.closed_at, repo_full_name |-> SubSeq(it.repository_url, 5, 6),
     labels |-> it.labels]

AnalyzeIssueStep ==
    /\ UNCHANGED <<fetchVars, recVars, mainVars>>
    /\ pipe = "analyze_issues"
    /\ rpc = "loop"
    /\ \E it \in IssueItems :
         /\ Take(it)
         /\ records' = Append(records, IssueRecord(it))
    /\ UNCHANGED <<pipe, rpc, seen_shas, assigned, detail_requests, pulls_requests, totals>>

\* the authored issues are done; the assigned-issues query follows
AuthoredEnd ==
    /\ UNCHANGED <<fetchVars, recVars, mainVars>>
    /\ pipe = "analyze_issues"
    /\ rpc = "loop"
    /\ rpc' = "loop2"
    /\ UNCHANGED <<pipe, nitems, item, seen_shas, records, assigned, detail_requests,
                   pulls_requests, totals>>

AnalyzeAssignedStep ==
    /\ UNCHANGED <<fetchVars, recVars, mainVars>>
    /\ pipe = "analyze_issues"
    /\ rpc = "loop2"
    /\ \E it \in IssueItems :
         /\ Take(it)
         /\ assigned' = Append(assigned, IssueRecord(it))
    /\ UNCHANGED <<pipe, rpc, seen_shas, records, detail_requests, pulls_requests, totals>>

H1IssueStep ==
    /\ UNCHANGED <<fetchVars, recVars, mainVars>>
    /\ pipe = "h1_issues"
    /\ rpc = "loop"
    /\ \E it \in IssueItems :
         /\ Take(it)
         /\ records' = Append(records, H1IssueRecord(it))
    /\ UNCHANGED <<pipe, rpc, seen_shas, assigned, detail_requests, pulls_requests, totals>>

(***************************************************************************)
(* The totals.  A mean is round(sum(xs) / len(xs), 2); half-way between    *)
(* two hundredths the float quotient may fall on either side, so both      *)
(* neighbours are outcomes.                                                *)
(***************************************************************************)
IsGiven(d) == d # None

\* [x for x in deltas if x is not None]
NonNullAsZero(deltas) == [i \in 1..Len(deltas) |-> IF deltas[i] = None THEN <<0>> ELSE deltas[i]]
NonNull(deltas) == SelectSeq(deltas, IsGiven)

\* round(sum(xs) / len(xs), 2) if xs else None
MeanChoices(xs) ==
    IF xs = <<>> THEN {None}
    ELSE LET s == Sum([i \in 1..Len(xs) |-> xs[i][1]])
             n == Len(xs)
             q == s \div n
         IN  IF 2 * (s - q * n) = n THEN {<<q>>, <<q + 1>>}
             ELSE {<<RoundHalfEven(s, n)>>}

Field(xs, f) == [i \in 1..Len(xs) |-> xs[i][f]]
IsMerged(p) == p.merged_at # None
IsMergedFlag(p) == p.merged
IsClosed(i) == i.closed_at # None
IsIncident(i) == i.is_incident
DetectIncident(i) == detect_incident_issue(i.title, i.labels)
MttrHours(is) == [i \in 1..Len(is) |-> calc_mttr_hours(is[i].created_at, is[i].closed_at)]

\* the totals of one category, one record per way the means can round
TotalsChoices ==
    CASE pipe = "analyze_prs" ->
           {[prs_created |-> Len(records),
             prs_merged |-> Count(records, IsMerged),
             lines_added |-> Sum(Field(records, "additions")),
             lines_deleted |-> Sum(Field(records, "deletions")),
             files_changed |-> Sum(Field(records, "changed_files")),
             avg_cycle_time_days |-> a] :
               a \in MeanChoices(NonNull(Field(records, "cycle_time_days")))}
      [] pipe = "h1_prs" ->
           {[prs_opened |-> Len(records),
             prs_merged |-> Count(records, IsMergedFlag),
             pr_additions |-> Sum(Field(records, "additions")),
             pr_deletions |-> Sum(Field(records, "deletions"))]}
      [] pipe = "analyze_commits" ->
           {[commits_count |-> Len(records),
             commit_lines_changed |-> Sum(Field(records, "total_changes")),
             commit_additions |-> Sum(Field(records, "additions")),
             commit_deletions |-> Sum(Field(records, "deletions"))]}
      [] pipe = "h1_commits" ->
           {[commits |-> Len(records),
             commit_additions |-> Sum(Field(records, "additions")),
             commit_deletions |-> Sum(Field(records, "deletions"))]}
      [] pipe = "analyze_issues" ->
           LET incident_issues ==
                   SelectSeq(records, IsIncident) \o SelectSeq(assigned, IsIncident)
           IN  {[issues_created |-> Len(records),
                 avg_issue_close_time_days |-> a,
                 incident_issues_count |-> Len(incident_issues),
                 avg_incident_mttr_days |-> m] :
                   a \in MeanChoices(NonNull(Field(records \o assigned, "time_to_close_days"))),
                   m \in MeanChoices(NonNull(Field(incident_issues, "time_to_close_days")))}
      [] pipe = "h1_issues" ->
           LET incident_issues == SelectSeq(records, DetectIncident)
           IN  {[issues_opened |-> Len(records),
                 issues_closed |-> Count(records, IsClosed),
                 incident_issues |-> Len(incident_issues),
                 incident_mttr_hours_avg |-> m] :
                   m \in MeanChoices(NonNull(MttrHours(incident_issues)))}

Aggregate ==
    /\ UNCHANGED <<fetchVars, recVars, mainVars>>
    /\ rpc = "fetched"
    /\ totals' \in TotalsChoices
    /\ rpc' = "done"
    /\ UNCHANGED <<pipe, nitems, item, seen_shas, records, assigned, detail_requests,
                   pulls_requests>>

ReportInit ==
    /\ FetchIdle
    /\ ReportIdle
    /\ RecIdle
    /\ MainIdle

ReportNext ==
    \/ \E p \in AllPipes : StartPipe(p)
    \/ AnalyzePrStep
    \/ H1PrStep
    \/ AnalyzeCommitStep
    \/ H1CommitStep
    \/ AnalyzeIssueStep
    \/ AuthoredEnd
    \/ AnalyzeAssignedStep
    \/ H1IssueStep
    \/ LoopEnd
    \/ Aggregate
    \/ Done

SpecReport == ReportInit /\ [][ReportNext]_vars

(***************************************************************************)
(* Claims about the category pipelines and the totals, under SpecReport.   *)
(***************************************************************************)
CommitPipes == {"analyze_commits", "h1_commits"}
IssuePipes == {"analyze_issues", "h1_issues"}
Abs(n) == IF n >= 0 THEN n ELSE 0 - n

\* C5: in the commits of one run no two records share a hash, whatever the
\* queries return.  (fetch_commits of the h1 report does not deduplicate.)
C5_NoTwoRecordsShareHash ==
    pipe \in CommitPipes =>
        \A i, j \in 1..Len(records) : i # j => records[i].sha # records[j].sha

\* C5, the part the code has: analyze keeps one record per hash, and every
\* hash it has seen has exactly its record
C5_AnalyzeDeduplicates ==
    pipe = "analyze_commits" =>
        /\ \A i, j \in 1..Len(records) : i # j => records[i].sha # records[j].sha
        /\ {records[i].sha : i \in 1..Len(records)} = seen_shas

\* C6: when the detail fetch of a PR or a commit fails, the run goes on and the
\* report holds a record for that item with zero line and file counts and an
\* explicit error marker.  (analyze drops the marker; the h1 report drops the item.)
RecordKey(r) == IF pipe \in CommitPipes THEN r.sha ELSE r.number
Changes(r) ==
    CASE pipe = "analyze_commits" -> r.additions + r.deletions + r.files_changed
      [] pipe = "h1_commits" -> r.additions + r.deletions
      [] OTHER -> r.additions + r.deletions + r.changed_files
C6_FailedFetchKeepsMarkedRecord ==
    (pipe \in {"analyze_prs", "analyze_commits", "h1_prs", "h1_commits"} /\ rpc = "loop") =>
        \A q \in 1..Len(detail_requests) :
            ~detail_requests[q].ok =>
                \E i \in 1..Len(records) :
                    /\ RecordKey(records[i]) = detail_requests[q].key
                    /\ Changes(records[i]) = 0
                    /\ "_fetch_error" \in DOMAIN records[i]

\* C6, the part the code has: in analyze a failed detail fetch still leaves a
\* record of the item, and no record of any category carries an error marker
C6_AnalyzeKeepsUnmarkedRecord ==
    /\ (pipe \in {"analyze_prs", "analyze_commits"} /\ rpc = "loop") =>
          \A q \in 1..Len(detail_requests) :
              \E i \in 1..Len(records) :
                  RecordKey(records[i]) = detail_requests[q].key
    /\ \A i \in 1..Len(records) : "_fetch_error" \notin DOMAIN records[i]

\* C7: every average of the totals is the mean (to 2 decimals) of exactly the
\* non-null deltas of its records, and null when no record has a delta
RECURSIVE TotalGiven(_)
TotalGiven(ds) ==
    IF ds = <<>> THEN 0
    ELSE (IF Head(ds) = None THEN 0 ELSE Head(ds)[1]) + TotalGiven(Tail(ds))
IsMeanOfGiven(avg, ds) ==
    LET n == Cardinality({i \in 1..Len(ds) : ds[i] # None})
    IN  IF n = 0 THEN avg = None
        ELSE avg # None /\ 2 * Abs(n * avg[1] - TotalGiven(ds)) <= n
HoursOf(i) ==
    IF i.created_at = None \/ i.closed_at = None THEN None
    ELSE <<100 * ((i.closed_at[1] - i.created_at[1]) * 24 + i.closed_at[2] - i.created_at[2])>>
C7_AveragesOverNonNullDeltas ==
    rpc = "done" =>
        /\ pipe = "analyze_prs" =>
              IsMeanOfGiven(totals.avg_cycle_time_days, Field(records, "cycle_time_days"))
        /\ pipe = "analyze_issues" =>
              /\ IsMeanOfGiven(totals.avg_issue_close_time_days,
                               Field(records \o assigned, "time_to_close_days"))
              /\ IsMeanOfGiven(totals.avg_incident_mttr_days,
                               Field(SelectSeq(records \o assigned, IsIncident),
                                     "time_to_close_days"))
        /\ pipe = "h1_issues" =>
              LET inc == SelectSeq(records, DetectIncident)
              IN  IsMeanOfGiven(totals.incident_mttr_hours_avg,
                                [i \in 1..Len(inc) |-> HoursOf(inc[i])])

\* C7 witness: deltas 1.0, null, 3.0 average to 2.0
C7_Witness ==
    /\ rpc = "done"
    /\ pipe = "analyze_issues"
    /\ Field(records \o assigned, "time_to_close_days") = <<<<100>>, None, <<300>>>>
    /\ totals.avg_issue_close_time_days = <<200>>

\* C10 as stated: an issue whose title holds a title keyword counts as an
\* incident even without labels, and with both timestamps its time-to-close
\* enters the incident MTTR average.  (analyze classifies by labels only.)
KeywordTitled(i) == i.title = TitleOutage
HasBothTimes(i) == i.created_at # None /\ i.closed_at # None
IncidentCount ==
    IF pipe = "analyze_issues" THEN totals.incident_issues_count ELSE totals.incident_issues
IncidentAverage ==
    IF pipe = "analyze_issues" THEN totals.avg_incident_mttr_days
    ELSE totals.incident_mttr_hours_avg
C10_TitleKeywordIsIncident ==
    (rpc = "done" /\ pipe \in IssuePipes) =>
        LET kw == SelectSeq(records \o assigned, KeywordTitled)
        IN  /\ IncidentCount >= Len(kw)
            /\ (\E i \in 1..Len(kw) : HasBothTimes(kw[i])) => IncidentAverage # None

\* C10 as amended: that holds of the h1 report, whose average is
\* incident_mttr_hours_avg in hours (one such issue closed a day after its
\* creation gives 24.0); analyze does not look at the title, so there the
\* incidents are exactly the issues with a marked label
OneOutageIssue ==
    <<[number |-> 1, title |-> TitleOutage, created_at |-> T1, closed_at |-> <<11, 0>>,
       repo_full_name |-> RepoA, labels |-> <<>>]>>
HasLabel(i) == i.labels # <<>>
C10_TitleKeywordOnlyInH1 ==
    rpc = "done" =>
        /\ pipe = "h1_issues" =>
              LET kw == SelectSeq(records, KeywordTitled)
              IN  /\ totals.incident_issues >= Len(kw)
                  /\ (\E i \in 1..Len(kw) : HasBothTimes(kw[i]))
                        => totals.incident_mttr_hours_avg # None
                  /\ records = OneOutageIssue
                        => /\ totals.incident_issues = 1
                           /\ totals.incident_mttr_hours_avg = <<2400>>
        /\ pipe = "analyze_issues" =>
              /\ totals.incident_issues_count = Count(records \o assigned, HasLabel)
              /\ Count(records \o assigned, HasLabel) = 0
                    => totals.avg_incident_mttr_days = None

\* C10 witness: the h1 report of the one 'P0 outage' issue without labels
C10_Witness ==
    /\ rpc = "done"
    /\ pipe = "h1_issues"
    /\ records = OneOutageIssue
    /\ totals.incident_mttr_hours_avg = <<2400>>

(***************************************************************************)
(* Claims about issues both authored and assigned, under SpecReport.       *)
(***************************************************************************)
NoRepeat(xs) == \A i, j \in 1..Len(xs) : xs[i] = xs[j] => i = j
IssueKey(i) == <<i.repo, i.number>>
IssueKeys(is) == [k \in 1..Len(is) |-> IssueKey(is[k])]
\* the issues of a list, each repository and number once
RECURSIVE DistinctIssues(_)
DistinctIssues(is) ==
    IF is = <<>> THEN <<>>
    ELSE LET rest == DistinctIssues(SubSeq(is, 1, Len(is) - 1))
             last == is[Len(is)]
         IN  IF \E k \in 1..Len(rest) : IssueKey(rest[k]) = IssueKey(last)
             THEN rest ELSE Append(rest, last)

\* both queries returned the same data for an issue they share
SharedAgree ==
    \A i \in 1..Len(records), j \in 1..Len(assigned) :
        IssueKey(records[i]) = IssueKey(assigned[j]) => records[i] = assigned[j]

\* C16: in analyze, an issue returned by both the authored-issues query and
\* the assigned-issues query (same repository and number) is counted at most
\* once in incident_issues_count and contributes at most one delta to
\* avg_incident_mttr_days and to avg_issue_close_time_days
C16_SharedIssueCountedOnce ==
    (/\ rpc = "done"
     /\ pipe = "analyze_issues"
     /\ NoRepeat(IssueKeys(records))
     /\ NoRepeat(IssueKeys(assigned))
     /\ SharedAgree) =>
        LET once == DistinctIssues(records \o assigned)
            incidents == SelectSeq(once, IsIncident)
        IN  /\ totals.incident_issues_count <= Len(incidents)
            /\ IsMeanOfGiven(totals.avg_incident_mttr_days,
                             Field(incidents, "time_to_close_days"))
            /\ IsMeanOfGiven(totals.avg_issue_close_time_days,
                             Field(once, "time_to_close_days"))

\* C16 for issues that only one of the two queries returns: each is counted
\* once and contributes one delta
C16_UnsharedIssuesCountedOnce ==
    (/\ rpc = "done"
     /\ pipe = "analyze_issues"
     /\ NoRepeat(IssueKeys(records \o assigned))) =>
        LET incidents == SelectSeq(records \o assigned, IsIncident)
        IN  /\ totals.incident_issues_count = Len(incidents)
            /\ IsMeanOfGiven(totals.avg_incident_mttr_days,
                             Field(incidents, "time_to_close_days"))
            /\ IsMeanOfGiven(totals.avg_issue_close_time_days,
                             Field(records \o assigned, "time_to_close_days"))

(***************************************************************************)
(* Claims about the requests of analyze's commit loop, under SpecReport.   *)
(***************************************************************************)
\* C14: in analyze, deduplication by hash comes before enrichment: over a run
\* at most one commit-detail request and at most one commit-to-PR association
\* request is issued per distinct hash, however often the hash occurs among
\* the items of the author and committer queries
C14_OneRequestPerHash ==
    pipe = "analyze_commits" =>
        /\ NoRepeat(Field(detail_requests, "key"))
        /\ NoRepeat(pulls_requests)

\* C14 witness: of three items the third repeats the hash of an earlier one;
\* the requests issued are the two for the earlier items
C14_Witness ==
    /\ pipe = "analyze_commits"
    /\ nitems = 3
    /\ item.sha = "a1"
    /\ item.repo = RepoA
    /\ Field(detail_requests, "key") = <<"a1", "b2">>
    /\ pulls_requests = <<"a1", "b2">>

(***************************************************************************)
(* Claims about items without a repository identifier, under SpecReport.   *)
(***************************************************************************)
\* the loop has just moved on to an item
ItemTaken == nitems' = nitems + 1
\* no repository identifier can be derived for the item
NoRepo(p, it) ==
    CASE p = "analyze_prs" -> safe_repo_full_name(it) = None
      [] p = "analyze_commits" -> it.sha # Absent /\ AnalyzeCommitRepo(it) = None
      [] p = "h1_commits" -> H1CommitKey(it).repo = None
      [] OTHER -> FALSE
NoRequest == detail_requests' = detail_requests /\ pulls_requests' = pulls_requests

\* C12: a PR or commit item for which no repository identifier can be derived
\* is skipped: no detail request is issued for it and no record of it is added
\* (so it adds nothing to a total), and the loop goes on to the other items
C12_NoRepoItemSkipped ==
    [][(ItemTaken /\ NoRepo(pipe, item')) => (NoRequest /\ records' = records)]_vars

\* C12 without the record: no request is ever issued for such an item
C12_NoRepoItemNotRequested ==
    [][(ItemTaken /\ NoRepo(pipe, item')) => NoRequest]_vars

\* C12 for the PR loop of analyze and the commit loop of the h1 report: there
\* the item is skipped whole
C12_SkippedOutsideAnalyzeCommits ==
    [][(ItemTaken /\ pipe # "analyze_commits" /\ NoRepo(pipe, item'))
         => (NoRequest /\ records' = records)]_vars

(***************************************************************************)
(* The per-record derivations on their own: the timestamps are drawn       *)
(* first, then one of the record builders is applied to them.              *)
(***************************************************************************)
LabelSev1Lower == <<"s","e","v","1">>
LabelSev1Prod == <<"s","e","v","1","-","p","r","o","d">>
LabelDocs == <<"d","o","c","s">>
RecLabels == {<<>>, <<LabelSev1>>, <<LabelSev1Lower>>, <<LabelSev1Prod>>, <<LabelDocs>>}
RecInputs ==
    {[created_at |-> c, merged_at |-> m, closed_at |-> e, title |-> TitlePlain, labels |-> l] :
        c \in {None, <<10, 0>>, <<10, 3>>},
        m \in {None, <<9, 0>>, <<12, 0>>},
        e \in {None, <<9, 23>>, <<10, 0>>, <<10, 9>>, <<11, 0>>, <<40, 5>>},
        l \in RecLabels}

\* the search item and the PR detail that carry the timestamps
ItemOf(in) ==
    [repository_url |-> RepoUrl, number |-> 1, title |-> in.title, labels |-> in.labels,
     created_at |-> in.created_at, closed_at |-> in.closed_at]
DetailOf(in) ==
    [ok |-> TRUE, created_at |-> in.created_at, merged_at |-> in.merged_at,
     closed_at |-> in.closed_at, additions |-> 1, deletions |-> 1, changed_files |-> 1]

Built(f, r) ==
    /\ UNCHANGED <<fetchVars, reportVars, mainVars>>
    /\ rfn = "none"
    /\ rfn' = f
    /\ rout' = r
    /\ UNCHANGED rin

\* analyze: the issue loops
BuildIssueRecord == Built("issue", IssueRecord(ItemOf(rin)))

\* analyze: the PR loop, the detail fetched
BuildPrRecord ==
    Built("pr", PrRecord(RepoA, 1, PrOf(ItemOf(rin), DetailOf(rin))))

\* analyze: the PR loop, the detail fetch failed
BuildPrFallbackRecord ==
    Built("pr_fallback", PrRecord(RepoA, 1, PrOf(ItemOf(rin), PrFetchError)))

\* h1 report: aggregate's classification and MTTR of one issue
BuildMttr ==
    Built("mttr", [created_at |-> rin.created_at, closed_at |-> rin.closed_at,
                   title |-> rin.title, labels |-> rin.labels,
                   is_incident |-> detect_incident_issue(rin.title, rin.labels),
                   mttr_hours |-> calc_mttr_hours(rin.created_at, rin.closed_at)])

RecInit ==
    /\ FetchIdle
    /\ ReportIdle
    /\ MainIdle
    /\ rin \in RecInputs
    /\ rfn = "none"
    /\ rout = None

RecNext ==
    \/ BuildIssueRecord
    \/ BuildPrRecord
    \/ BuildPrFallbackRecord
    \/ BuildMttr

SpecRecord == RecInit /\ [][RecNext]_vars

(***************************************************************************)
(* Claims about the records' time deltas, under SpecRecord.                *)
(***************************************************************************)
\* the delta of the record built, and the end timestamp it runs to
DeltaOut ==
    CASE rfn = "issue" -> rout.time_to_close_days
      [] rfn = "mttr" -> rout.mttr_hours
      [] OTHER -> rout.cycle_time_days
EndOut ==
    IF rfn \in {"pr", "pr_fallback"}
    THEN (IF rout.merged_at # None THEN rout.merged_at ELSE rout.closed_at)
    ELSE rout.closed_at

\* C8: the time delta of a PR or issue record is null whenever its creation
\* timestamp or its end timestamp (merge or else close; close for an issue) is
\* absent, never zero or a clamped value
C8_DeltaNullWhenTimestampAbsent ==
    (rfn # "none" /\ (rout.created_at = None \/ EndOut = None)) => DeltaOut = None

\* C8 witness: a closed issue without a creation timestamp got a null delta
C8_Witness ==
    /\ rfn = "issue"
    /\ rout.created_at = None
    /\ rout.closed_at = <<11, 0>>
    /\ rout.time_to_close_days = None

HoursBetween(a, b) == (b[1] - a[1]) * 24 + b[2] - a[2]

\* C9 as stated: with both timestamps, time-to-close is close minus creation in
\* days (to 2 decimals) and is non-negative.  (Nothing stops a close before the
\* creation: the delta is then negative.)
C9_TimeToCloseNonNegative ==
    (rfn = "issue" /\ rout.created_at # None /\ rout.closed_at # None) =>
        /\ rout.time_to_close_days # None
        /\ Abs(24 * rout.time_to_close_days[1]
               - 100 * HoursBetween(rout.created_at, rout.closed_at)) <= 12
        /\ rout.time_to_close_days[1] >= 0

\* C9 as amended: with both timestamps, time-to-close is close minus creation in
\* days to 2 decimals; it is non-negative when the close is not earlier than the
\* creation, and negative or zero, not clamped, when it is earlier
C9_TimeToCloseIsDifference ==
    (rfn = "issue" /\ rout.created_at # None /\ rout.closed_at # None) =>
        LET h == HoursBetween(rout.created_at, rout.closed_at)
        IN  /\ rout.time_to_close_days # None
            /\ Abs(24 * rout.time_to_close_days[1] - 100 * h) <= 12
            /\ (h >= 0 => rout.time_to_close_days[1] >= 0)
            /\ (h < 0 => rout.time_to_close_days[1] <= 0)

\* C9 witness: closed 9 hours after creation, 0.375 days, reported as 0.38
C9_Witness ==
    /\ rfn = "issue"
    /\ rout.created_at = <<10, 0>>
    /\ rout.closed_at = <<10, 9>>
    /\ rout.time_to_close_days = <<38>>

(***************************************************************************)
(* Claims about the label check of the two classifiers, under SpecRecord.  *)
(***************************************************************************)
\* the label markers of the classifier that built the record
MarkersOf(f) == IF f = "issue" THEN incident_markers ELSE incident_labels
\* some label name contains a marker, letter case ignored
LabelHasMarker(labels, markers) ==
    \E n \in 1..Len(labels) : \E m \in 1..Len(markers) :
        Contains(Lower(labels[n]), markers[m])
Classified == rfn \in {"issue", "mttr"}

\* C11: in both classifiers (is_incident_issue and detect_incident_issue) the
\* label check is a case-insensitive substring match: an issue is an incident
\* whenever one of its label names contains one of the label markers in any
\* letter case, so 'sev1-prod' classifies as an incident like 'SEV1' and 'sev1'
C11_LabelSubstringInBoth ==
    (Classified /\ LabelHasMarker(rout.labels, MarkersOf(rfn))) => rout.is_incident

\* C11 for analyze alone: is_incident_issue matches a marker inside a longer
\* label name, and only then
C11_AnalyzeLabelSubstring ==
    rfn = "issue" => (rout.is_incident <=> LabelHasMarker(rout.labels, incident_markers))

\* C11 for the h1 report alone: without a title keyword, detect_incident_issue
\* holds exactly when a lower-cased label name equals one of the label names
C11_H1LabelExact ==
    rfn = "mttr" =>
        (rout.is_incident <=>
            \E n \in 1..Len(rout.labels) : \E m \in 1..Len(incident_labels) :
                Lower(rout.labels[n]) = incident_labels[m])

(***************************************************************************)
(* A whole run of either program: main parses its command line, runs the   *)
(* searches of the categories in order (each one of the page loops above), *)
(* aggregates, and writes the report.  The per-item detail requests are    *)
(* not steps here: their failures are caught inside the category loops.    *)
(***************************************************************************)
Programs == {"analyze", "h1"}
MainArgs == {[user |-> u, out_dir |-> d] : u \in BOOLEAN, d \in BOOLEAN}

\* the searches of a run, in order, each with the page loop that serves it
Stages(p) ==
    IF p = "analyze"
    THEN <<[name |-> "prs", loop |-> "search_issues"],
           [name |-> "issues", loop |-> "search_issues"],
           [name |-> "issues_assigned", loop |-> "search_issues"],
           [name |-> "commits_author", loop |-> "search_commits"],
           [name |-> "commits_committer", loop |-> "search_commits"]>>
    ELSE <<[name |-> "prs", loop |-> "search_github"],
           [name |-> "issues", loop |-> "search_github"],
           [name |-> "commits", loop |-> "fetch_commits"]>>

Searching == mpc = "search"

\* what the endpoint answers during a whole run: a page, a rate-limit
\* rejection with or without its reset header, another HTTP error, no answer
MainResponses ==
    {r \in Responses :
        /\ r.reset \in {None, <<1,0,0,5>>}
        /\ r.body \in {None, BodyRateLimit, BodyForbidden}
        /\ r.status \in {0, 200, 403, 500}
        /\ (r.status = 200 => r.next)}
MainTimes == {t \in Times : t = 1000}

\* argparse (required --user) and the usage check of the h1 report: exit 2
ParseArgs ==
    /\ UNCHANGED <<fetchVars, reportVars, recVars>>
    /\ mpc = "start"
    /\ IF margs.user
       THEN mpc' = "search" /\ stage' = 1 /\ exit_code' = exit_code
       ELSE mpc' = "exited" /\ stage' = stage /\ exit_code' = <<2>>
    /\ UNCHANGED <<prog, margs, search_failed, out_file>>

\* the next search of the run begins
MainSearch ==
    /\ Searching
    /\ Start(Stages(prog)[stage].loop)

\* a page of the response used was not the page asked for
StaleUse == \E i \in 1..Len(appended) : appended[i].asked # appended[i].used

\* the search returned its items: on to the next one, or to the aggregates
MainSearchReturned ==
    /\ UNCHANGED <<reportVars, recVars>>
    /\ Searching
    /\ pc = "returned"
    /\ FetchReset
    /\ search_failed' = (search_failed \/ StaleUse)
    /\ IF stage < Len(Stages(prog))
       THEN mpc' = mpc /\ stage' = stage + 1
       ELSE mpc' = "aggregate" /\ stage' = stage
    /\ UNCHANGED <<prog, margs, out_file, exit_code>>

\* the search raised: analyze's main prints the error and exits 1; the h1
\* report does not catch it and the interpreter exits 1 with a traceback
MainSearchRaised ==
    /\ UNCHANGED <<reportVars, recVars>>
    /\ Searching
    /\ pc = "raised"
    /\ FetchReset
    /\ search_failed' = TRUE
    /\ mpc' = "exited"
    /\ exit_code' = <<1>>
    /\ UNCHANGED <<prog, margs, stage, out_file>>

\* the aggregates are computed; analyze then makes the output directory:
\* os.makedirs(os.path.dirname(out)) raises when the path has no directory
MainAggregate ==
    /\ UNCHANGED <<fetchVars, reportVars, recVars>>
    /\ mpc = "aggregate"
    /\ IF prog = "analyze" /\ ~margs.out_dir
       THEN mpc' = "exited" /\ exit_code' = <<1>>
       ELSE mpc' = "open" /\ exit_code' = exit_code
    /\ UNCHANGED <<prog, margs, stage, search_failed, out_file>>

\* open(out, "w")
MainOpen ==
    /\ UNCHANGED <<fetchVars, reportVars, recVars>>
    /\ mpc = "open"
    /\ mpc' = "dump"
    /\ out_file' = "empty"
    /\ UNCHANGED <<prog, margs, stage, search_failed, exit_code>>

\* json.dump(data, f), the path printed, and the normal exit
MainDump ==
    /\ UNCHANGED <<fetchVars, reportVars, recVars>>
    /\ mpc = "dump"
    /\ mpc' = "exited"
    /\ out_file' = "complete"
    /\ exit_code' = <<0>>
    /\ UNCHANGED <<prog, margs, stage, search_failed>>

MainInit ==
    /\ FetchIdle
    /\ ReportIdle
    /\ RecIdle
    /\ prog \in Programs
    /\ margs \in MainArgs
    /\ mpc = "start"
    /\ stage = 0
    /\ search_failed = FALSE
    /\ out_file = "none"
    /\ exit_code = None

MainNext ==
    \/ ParseArgs
    \/ MainSearch
    \/ \E r \in MainResponses : FirstAttempt(r)
    \/ \E now \in MainTimes : Backoff(now)
    \/ \E r \in MainResponses : RetryAttempt(r)
    \/ SearchToolsStep
    \/ SearchGithubStep
    \/ FetchCommitsStep
    \/ MainSearchReturned
    \/ MainSearchRaised
    \/ MainAggregate
    \/ MainOpen
    \/ MainDump

SpecMain == MainInit /\ [][MainNext]_vars

(***************************************************************************)
(* Claims about the report file, under SpecMain.                           *)
(***************************************************************************)
Exited == mpc = "exited"

\* C13: the output file is written only as the last step, after every
\* category has been fetched and aggregated: in a run where a search request
\* failed and was not recovered, the program ends with a non-zero exit and no
\* report file, complete or partial, has been written
C13_FailedSearchWritesNothing ==
    /\ out_file # "none" => mpc \in {"dump", "exited"}
    /\ search_failed => out_file = "none"
    /\ (search_failed /\ Exited) => exit_code \notin {None, <<0>>}

\* C13 for the failures that propagate: once a search has raised, the run is
\* over with a non-zero exit and no file; and a file exists only after the
\* last search has returned
C13_RaisedSearchWritesNothing ==
    /\ out_file # "none" => mpc \in {"dump", "exited"}
    /\ (Exited /\ exit_code # <<0>>) => out_file = "none"
    /\ (Exited /\ exit_code = <<0>>) => out_file = "complete"

====
